---- MODULE Spec2Model ----
(***************************************************************************)
(* Query orchestration engine of src/monitoring/main.py: APILimits (rate   *)
(* windows), BatchProcessor (request batching), query_llm/_process_items   *)
(* (cache, rate gate, provider call) and ResultQueue (buffered flush).     *)
(*                                                                         *)
(* Everything runs on one asyncio event loop: an action is the code a      *)
(* coroutine runs between two suspension points.                           *)
(***************************************************************************)
EXTENDS Integers, Sequences, FiniteSets, TLC

VARIABLES
    now,        \* the current minute (datetime.now() formatted to the minute)
    usage,      \* APILimits.usage: provider -> (minute_key -> requests, tokens)
    wpc,        \* direct wait_for_capacity callers: position
    wprov,      \* ... the provider they wait for
    wretry,     \* ... retry_count of the current recursive call
    wchecks,    \* ... admission checks made by this invocation (history)
    wsleeps,    \* ... backoff sleeps made by this invocation (history)
    granted,    \* provider -> (minute, checks that returned True in it) (history)
    pc,         \* query_llm callers: position
    req,        \* ... the arguments of the call
    retry,      \* ... retry_count of their wait_for_capacity
    ret,        \* ... what query_llm returned or raised
    admit_min,  \* ... the minute wait_for_capacity returned True (history)
    posted,     \* ... whether a provider request was sent for their item (history)
    batches,    \* BatchProcessor.batches: key -> list of items
    events,     \* BatchProcessor.events: key -> set of events (one per caller)
    results,    \* BatchProcessor.results: event -> result
    processing, \* BatchProcessor.processing
    task,       \* the asyncio task created by each caller's add_to_batch
    cache,      \* redis: cache_key -> entry
    cache_hits, \* CostOptimizer.cache_hits
    cache_misses, \* CostOptimizer.cache_misses
    queue,      \* redis list "result_queue"
    last_flush, \* redis key "last_flush": the minute of the last successful flush
    flusher,    \* the coroutines that run flush_to_database, with their locals
    tables,     \* keyword_queries, ranking_history, api_usage: rows per result id
    pushed,     \* number of add_result calls so far (history)
    failures,   \* number of flushes whose insert step raised so far (history)
    flush_tasks, \* number of _background_flush tasks that are alive
    flush_starts, \* number of _background_flush tasks created so far (history)
    opt_in,     \* the arguments of the last direct optimize_query call
    opt_out,    \* ... the (llm_type, llm_version) it returned
    recommended, \* what the last recommend_model call returned
    model_performance, \* CostOptimizer.model_performance: (type, version) -> score
    opt_first,  \* the arguments and the answer of a remembered optimize_query call (history)
    db,         \* table monitoring_tasks: task id -> row
    jobs,       \* the scheduler's job store
    execs,      \* the invocations of execute_monitoring_task, in start order
    direct_rows, \* rows execute_monitoring_task inserted itself, per table
    restarts    \* number of process restarts so far (history)

rateVars == <<now, usage, wpc, wprov, wretry, wchecks, wsleeps, granted>>

waitVars == <<wpc, wprov, wretry, wchecks, wsleeps, granted>>

callerVars == <<pc, req, retry, ret, admit_min, posted>>

batchVars == <<batches, events, results, processing, task>>

optVars == <<cache_hits, cache_misses>>

queryVars == <<callerVars, batchVars, cache, optVars>>

flushTaskVars == <<flush_tasks, flush_starts>>

queueVars == <<queue, last_flush, flusher, tables, pushed, failures, flushTaskVars>>

costVars == <<opt_in, opt_out, recommended, model_performance, opt_first>>

schedVars == <<db, jobs, execs, direct_rows, restarts>>

vars == <<rateVars, queryVars, queueVars, costVars, schedVars>>

\* what the actions of one component leave alone in the others
outsideRate == <<queryVars, queueVars, costVars, schedVars>>

outsideQuery == <<waitVars, queueVars, costVars, schedVars>>

outsideQueue == <<usage, waitVars, queryVars, costVars, schedVars>>

\* Python's None, and a missing redis key
Absent == [absent |-> TRUE]

----------------------------------------------------------------------------
(* Bounds of the model                                                     *)

\* minutes the clock can reach: 0..MaxMinute
MaxMinute == 1
\* direct calls: requests recorded per window, and successful bare checks per window
MaxDirectCalls == 2

----------------------------------------------------------------------------
(* APILimits                                                               *)

Providers == {"openai", "anthropic"}

\* self.limits[provider]["requests_per_minute"], configured small
requests_per_minute == 1
\* self.limits[provider]["max_retries"]
max_retries == 5

Minutes == 0..MaxMinute

\* a window as created by lines 150-153 / 171-174
NewWindow == [requests |-> 0, tokens |-> 0]

\* the dict with key k set to v (d[k] = v)
DictPut(d, k, v) == [x \in (DOMAIN d) \cup {k} |-> IF x = k THEN v ELSE d[x]]

\* a can_make_request without the clean-up loop of lines 155-158
UsageAfterCheckKeepOld(u, provider, minute_key) ==
    IF minute_key \in DOMAIN u[provider]
    THEN u
    ELSE [u EXCEPT ![provider] = DictPut(u[provider], minute_key, NewWindow)]

\* usage[provider] after lines 146-158: the current window exists, the others are popped
UsageAfterCheck(u, provider, minute_key) ==
    LET withKey == IF minute_key \in DOMAIN u[provider]
                   THEN u[provider]
                   ELSE DictPut(u[provider], minute_key, NewWindow)
    IN [u EXCEPT ![provider] = [k \in {minute_key} |-> withKey[k]]]

\* the value can_make_request returns (line 160)
CanMakeRequest(u, provider, minute_key) ==
    UsageAfterCheck(u, provider, minute_key)[provider][minute_key].requests
        < requests_per_minute

\* usage after increment_usage(provider, tokens)
IncrementUsage(u, provider, minute_key, tokens) ==
    LET cur == IF minute_key \in DOMAIN u[provider]
               THEN u[provider][minute_key]
               ELSE NewWindow
    IN [u EXCEPT ![provider] =
            DictPut(u[provider], minute_key,
                    [requests |-> cur.requests + 1, tokens |-> cur.tokens + tokens])]

\* wait_for_capacity giving up one attempt late (> for >=)
WaitOutcomeLate(u, provider, minute_key, retry_count) ==
    IF retry_count > max_retries THEN "false"
    ELSE IF CanMakeRequest(u, provider, minute_key) THEN "true"
    ELSE "sleep"

\* one call of wait_for_capacity(provider, retry_count) up to its return or its sleep
WaitOutcome(u, provider, minute_key, retry_count) ==
    IF retry_count >= max_retries THEN "false"
    ELSE IF CanMakeRequest(u, provider, minute_key) THEN "true"
    ELSE "sleep"

\* usage after that call: the check of line 184 runs only below max_retries
WaitUsage(u, provider, minute_key, retry_count) ==
    IF retry_count >= max_retries THEN u
    ELSE UsageAfterCheck(u, provider, minute_key)

----------------------------------------------------------------------------
(* History of admission checks                                             *)

GrantedAfter(g, provider, minute_key, result) ==
    LET cnt == IF g[provider].minute = minute_key THEN g[provider].count ELSE 0
    IN [g EXCEPT ![provider] =
            [minute |-> minute_key, count |-> cnt + (IF result THEN 1 ELSE 0)]]

----------------------------------------------------------------------------
(* LLMCosts                                                                *)

\* LLMCosts.COSTS in dict order; prices per 1K tokens in units of 0.0001 dollar
COSTS == <<
    [platform |-> "openai",    model |-> "gpt-4",          input |-> 300, output |-> 600],
    [platform |-> "openai",    model |-> "gpt-3.5-turbo",  input |-> 10,  output |-> 20],
    [platform |-> "openai",    model |-> "text-ada-001",   input |-> 4,   output |-> 4],
    [platform |-> "anthropic", model |-> "claude-2",       input |-> 80,  output |-> 240],
    [platform |-> "anthropic", model |-> "claude-instant", input |-> 8,   output |-> 24],
    [platform |-> "google",    model |-> "gemini-pro",     input |-> 10,  output |-> 20] >>

\* estimated_tokens default of estimate_cost
EstimatedTokens == 500

\* estimate_cost of a COSTS entry, times 1000 (units of 0.0000001 dollar)
EstimateCost(e) ==
    (EstimatedTokens \div 2) * e.input + (EstimatedTokens \div 2) * e.output

\* whether COSTS[llm_type][llm_version] exists (lines 296-301, line 404)
InCostTable(llm_type, llm_version) ==
    \E i \in 1..Len(COSTS) : COSTS[i].platform = llm_type /\ COSTS[i].model = llm_version

\* max_cost_per_query = 0.05 in the units of EstimateCost
MaxCostPerQuery == 500000

\* "gpt-4" in model / "claude-2" in model and "instant" not in model
IsGpt4(model) == model = "gpt-4"

IsClaude2(model) == model = "claude-2"

\* the loop of recommend_model over COSTS[i..]: best is the entry chosen so far
RECURSIVE RecommendFrom(_, _)
RecommendFrom(i, best) ==
    IF i > Len(COSTS) THEN best
    ELSE LET e == COSTS[i]
             take == /\ EstimateCost(e) <= MaxCostPerQuery
                     /\ \/ best = Absent
                        \/ e.platform = "openai" /\ IsGpt4(e.model)
                        \/ e.platform = "anthropic" /\ IsClaude2(e.model)
         IN RecommendFrom(i + 1, IF take THEN e ELSE best)

RecommendModel ==
    LET best == RecommendFrom(1, Absent)
    IN IF best = Absent THEN <<"openai", "gpt-3.5-turbo">>
       ELSE <<best.platform, best.model>>

----------------------------------------------------------------------------
(* CostOptimizer                                                           *)

\* A query text is given by what _calculate_query_complexity reads of it:
\* its word count, how many of the six complex keywords occur in it, and
\* whether it holds a '?', an "and"/"or", a bracket.
SimpleQuery ==
    [id |-> "q1", words |-> 10, keywords |-> 0,
     question |-> FALSE, conj |-> FALSE, bracket |-> FALSE]

ComplexQuery ==
    [id |-> "q2", words |-> 10, keywords |-> 3,
     question |-> TRUE, conj |-> FALSE, bracket |-> FALSE]

\* number of complex_keywords
NumKeywords == 6

\* a length score that is not divided by 100: min(words, 1.0) * 0.3
ComplexityUnscaled(q) ==
    (IF q.words < 1 THEN q.words ELSE 1) * 900
    + (q.keywords * 1200) \div NumKeywords
    + (IF q.question THEN 300 ELSE 0)
    + (IF q.conj THEN 300 ELSE 0)
    + (IF q.bracket THEN 300 ELSE 0)

\* _calculate_query_complexity, times 3000:
\*   min(words / 100, 1.0) * 0.3 + keywords / 6 * 0.4 + 0.1 per structure mark
Complexity(q) ==
    (IF q.words < 100 THEN q.words ELSE 100) * 9
    + (q.keywords * 1200) \div NumKeywords
    + (IF q.question THEN 300 ELSE 0)
    + (IF q.conj THEN 300 ELSE 0)
    + (IF q.bracket THEN 300 ELSE 0)

\* 0.3 in the units of Complexity
SimpleThreshold == 900

\* the default of self.model_performance.get(key, 0.8), in tenths
DefaultPerformance == 8

\* _check_model_performance, in tenths
CheckModelPerformance(llm_type, llm_version) ==
    IF <<llm_type, llm_version>> \in DOMAIN model_performance
    THEN model_performance[<<llm_type, llm_version>>]
    ELSE DefaultPerformance

\* 0.7 in tenths
PerformanceFloor == 7

\* optimize_query: the (llm_type, llm_version) it returns
OptimizeQuery(q, llm_type, llm_version) ==
    IF Complexity(q) < SimpleThreshold /\ llm_type = "openai" /\ IsGpt4(llm_version)
    THEN <<"openai", "gpt-3.5-turbo">>
    ELSE IF Complexity(q) < SimpleThreshold /\ llm_type = "anthropic"
            /\ IsClaude2(llm_version)
    THEN <<"anthropic", "claude-instant">>
    ELSE IF CheckModelPerformance(llm_type, llm_version) < PerformanceFloor
    THEN RecommendModel
    ELSE <<llm_type, llm_version>>

----------------------------------------------------------------------------
(* SpecOptimize: the cost functions called directly                        *)

\* word counts of the query texts tried: short, at the cap of 100, beyond it
WordCounts == {10, 100, 150}

\* the query texts tried, as _calculate_query_complexity reads them
QueryTexts ==
    { [id |-> "q", words |-> w, keywords |-> k, question |-> a, conj |-> b, bracket |-> d] :
        w \in WordCounts, k \in 0..NumKeywords, a \in BOOLEAN, b \in BOOLEAN, d \in BOOLEAN }

InitCostVars ==
    /\ opt_in = Absent
    /\ opt_out = Absent
    /\ recommended = Absent
    /\ model_performance = [k \in {} |-> DefaultPerformance]
    /\ opt_first = Absent

\* optimize_query(query_text, brand_name, llm_type, llm_version) runs and returns
OptimizeReturn(q, llm_type, llm_version) ==
    /\ opt_in' = [query_text |-> q, llm_type |-> llm_type, llm_version |-> llm_version]
    /\ opt_out' = [llm_type |-> OptimizeQuery(q, llm_type, llm_version)[1],
                   llm_version |-> OptimizeQuery(q, llm_type, llm_version)[2]]
    /\ UNCHANGED <<rateVars, queryVars, queueVars, schedVars, recommended, model_performance>>

\* cost_optimizer.optimize_query(query_text, brand_name, llm_type, llm_version)
OptimizeCall(q, llm_type, llm_version) ==
    /\ OptimizeReturn(q, llm_type, llm_version)
    /\ UNCHANGED opt_first

\* the same call, its arguments and its answer being remembered
ProbeCall(q, llm_type, llm_version) ==
    /\ opt_first = Absent
    /\ OptimizeReturn(q, llm_type, llm_version)
    /\ opt_first' = [query_text |-> q, llm_type |-> llm_type, llm_version |-> llm_version,
                     answer |-> OptimizeQuery(q, llm_type, llm_version)]

\* LLMCosts.recommend_model() with its default ceiling (lines 367, 828)
RecommendCall ==
    /\ recommended' = [platform |-> RecommendModel[1], model |-> RecommendModel[2]]
    /\ UNCHANGED <<rateVars, queryVars, queueVars, schedVars, opt_in, opt_out,
                   model_performance, opt_first>>

----------------------------------------------------------------------------
(* query_llm, BatchProcessor, _process_items: data                         *)

\* BatchProcessor.batch_size, configured small
batch_size == 2
\* the cache TTL (ex=3600) in minutes, configured small
CacheTtl == 1

\* the coroutines that call query_llm: one more than a batch holds
Callers == {1, 2, 3}

Brands == {"acme", "globex"}

\* the (query_text, brand_name, llm_type, llm_version) query_llm is called with
Requests ==
    { [query_text |-> SimpleQuery, brand_name |-> "acme",
       llm_type |-> "openai", llm_version |-> "gpt-4"],
      [query_text |-> SimpleQuery, brand_name |-> "globex",
       llm_type |-> "openai", llm_version |-> "gpt-4"],
      [query_text |-> ComplexQuery, brand_name |-> "acme",
       llm_type |-> "anthropic", llm_version |-> "claude-2"] }

\* calls for a model LLMCosts.COSTS does not list
UnknownRequests ==
    { [query_text |-> ComplexQuery, brand_name |-> "acme",
       llm_type |-> "openai", llm_version |-> "gpt-5"],
      [query_text |-> SimpleQuery, brand_name |-> "globex",
       llm_type |-> "openai", llm_version |-> "gpt-5"] }

\* the pair query_llm goes on with (lines 488-495)
Optimized(r) == OptimizeQuery(r.query_text, r.llm_type, r.llm_version)

\* batch_key = f"{llm_type}:{llm_version}"
BatchKey(r) == Optimized(r)

BatchKeys == {BatchKey(r) : r \in Requests \cup UnknownRequests}

\* cache_key: the md5 of query_text:brand_name:llm_type:llm_version, taken as
\* the tuple of its four parts
CacheKey(r) == <<r.query_text.id, r.brand_name, Optimized(r)[1], Optimized(r)[2]>>

CacheKeys == {CacheKey(r) : r \in Requests \cup UnknownRequests}

\* what the provider answers: the text and usage.total_tokens
ProviderResponses ==
    { [text |-> "r1", total_tokens |-> 1], [text |-> "r2", total_tokens |-> 2] }

\* brand_name.lower() in response_text.lower(): "r1" is a text naming the brand
BrandMentioned(brand_name, text) == brand_name = "acme" /\ text = "r1"

\* sentiment_score = 0.5, in tenths
SentimentScore == 5
\* ranking_position = 0
RankingPosition == 0

\* the result built at lines 582-588
MakeResult(item, response) ==
    [llm_response |-> response.text,
     brand_mentioned |-> BrandMentioned(item.brand_name, response.text),
     sentiment_score |-> SentimentScore,
     ranking_position |-> RankingPosition,
     tokens_used |-> response.total_tokens]

\* minimal_data of lines 591-597, with the minute the entry expires
MinimalData(result, minute) ==
    [m |-> result.brand_mentioned, s |-> result.sentiment_score,
     r |-> result.ranking_position, t |-> result.llm_response,
     u |-> result.tokens_used, expires |-> minute + CacheTtl]

\* what query_llm returns on a cache hit (lines 505-511)
FromCache(entry) ==
    [llm_response |-> entry.t, brand_mentioned |-> entry.m,
     sentiment_score |-> entry.s, ranking_position |-> entry.r,
     tokens_used |-> entry.u]

\* redis.get(cache_key): an expired entry is gone
RedisGet(store, key, minute) ==
    IF store[key] # Absent /\ minute < store[key].expires THEN store[key] ELSE Absent

\* redis.set without nx=True: the value is overwritten
RedisSetAlways(store, key, value, minute) == [store EXCEPT ![key] = value]

\* redis.set(cache_key, value, ex=3600, nx=True): only if the key does not exist
RedisSetNx(store, key, value, minute) ==
    IF RedisGet(store, key, minute) = Absent
    THEN [store EXCEPT ![key] = value]
    ELSE store

----------------------------------------------------------------------------
(* SpecRate: APILimits driven directly                                     *)

\* the coroutine whose wait_for_capacity is followed; what the others do to
\* usage meanwhile is CheckCall and IncrementCall
Waiters == {"w1"}

InitRateVars ==
    /\ now = 0
    /\ usage = [p \in Providers |-> << >>]
    /\ wpc = [w \in Waiters |-> "idle"]
    /\ wprov = [w \in Waiters |-> "openai"]
    /\ wretry = [w \in Waiters |-> 0]
    /\ wchecks = [w \in Waiters |-> 0]
    /\ wsleeps = [w \in Waiters |-> 0]
    /\ granted = [p \in Providers |-> [minute |-> 0, count |-> 0]]

\* the minute rolls over
Tick ==
    /\ now < MaxMinute
    /\ now' = now + 1
    /\ UNCHANGED <<usage, waitVars, queryVars, queueVars, costVars, schedVars>>

\* a bare api_limits.can_make_request(provider)
CheckCall(provider) ==
    /\ granted[provider].minute = now => granted[provider].count < MaxDirectCalls
    /\ usage' = UsageAfterCheck(usage, provider, now)
    /\ granted' = GrantedAfter(granted, provider, now, CanMakeRequest(usage, provider, now))
    /\ UNCHANGED <<now, wpc, wprov, wretry, wchecks, wsleeps, outsideRate>>

\* a bare api_limits.increment_usage(provider, tokens)
IncrementCall(provider, tokens) ==
    /\ usage[provider] = << >> \/ \A k \in DOMAIN usage[provider] :
                                      usage[provider][k].requests < MaxDirectCalls
    /\ usage' = IncrementUsage(usage, provider, now, tokens)
    /\ UNCHANGED <<now, waitVars, outsideRate>>

\* the body of one wait_for_capacity(provider, retry_count) call of waiter w
WaitStep(w, provider, retry_count) ==
    LET out == WaitOutcome(usage, provider, now, retry_count)
        checked == retry_count < max_retries
    IN /\ usage' = WaitUsage(usage, provider, now, retry_count)
       /\ wretry' = [wretry EXCEPT ![w] = retry_count]
       /\ wchecks' = [wchecks EXCEPT ![w] = @ + (IF checked THEN 1 ELSE 0)]
       /\ granted' = IF checked
                     THEN GrantedAfter(granted, provider, now, out = "true")
                     ELSE granted
       /\ wpc' = [wpc EXCEPT ![w] = out]
       /\ wsleeps' = [wsleeps EXCEPT ![w] = @ + (IF out = "sleep" THEN 1 ELSE 0)]

\* await api_limits.wait_for_capacity(provider): retry_count defaults to 0
WaitCall(w, provider) ==
    /\ wpc[w] = "idle"
    /\ wprov' = [wprov EXCEPT ![w] = provider]
    /\ WaitStep(w, provider, 0)
    /\ UNCHANGED <<now, outsideRate>>

\* asyncio.sleep(delay + jitter) is over: the recursive call with retry_count + 1
WaitWake(w) ==
    /\ wpc[w] = "sleep"
    /\ WaitStep(w, wprov[w], wretry[w] + 1)
    /\ UNCHANGED <<now, wprov, outsideRate>>

----------------------------------------------------------------------------
(* query_llm, BatchProcessor, _process_items: operations                   *)

\* A task record holds the locals of _process_batch and _process_items: batch,
\* events, the index idx of the item in work and the results list.  A finished
\* task keeps them, with the exception it caught (error) and whether one of
\* its redis.set calls found the key present (refused), as history.
NoTask ==
    [kind |-> "none", key |-> << >>, pc |-> "none", batch |-> << >>,
     events |-> {}, idx |-> 0, results |-> << >>, error |-> "", refused |-> FALSE]

\* asyncio.create_task(self._process_batch(key)) / (self._schedule_processing(key))
NewTask(kind, key) ==
    [kind |-> kind, key |-> key, pc |-> "start", batch |-> << >>,
     events |-> {}, idx |-> 0, results |-> << >>, error |-> "", refused |-> FALSE]

\* the orders in which a Python set of events can be iterated
Orders(S) ==
    { f \in [1..Cardinality(S) -> S] :
        \A i, j \in 1..Cardinality(S) : i # j => f[i] # f[j] }

Min(a, b) == IF a < b THEN a ELSE b

InitQueryVars ==
    /\ pc = [c \in Callers |-> "idle"]
    /\ req = [c \in Callers |-> Absent]
    /\ retry = [c \in Callers |-> 0]
    /\ ret = [c \in Callers |-> Absent]
    /\ admit_min = [c \in Callers |-> -1]
    /\ posted = [c \in Callers |-> FALSE]
    /\ batches = [k \in BatchKeys |-> << >>]
    /\ events = [k \in BatchKeys |-> {}]
    /\ results = [c \in Callers |-> Absent]
    /\ processing = FALSE
    /\ task = [c \in Callers |-> NoTask]
    /\ cache = [k \in CacheKeys |-> Absent]
    /\ cache_hits = [k \in BatchKeys |-> 0]
    /\ cache_misses = [k \in BatchKeys |-> 0]

\* add_to_batch(key, item) of caller c, up to its event.wait()
AddToBatch(c, key, item) ==
    LET batch == Append(batches[key], item)
    IN /\ batches' = [batches EXCEPT ![key] = batch]
       /\ events' = [events EXCEPT ![key] = @ \cup {c}]
       /\ task' = IF Len(batch) >= batch_size /\ ~processing
                  THEN [task EXCEPT ![c] = NewTask("process", key)]
                  ELSE IF ~processing
                  THEN [task EXCEPT ![c] = NewTask("schedule", key)]
                  ELSE task
       /\ UNCHANGED <<results, processing>>

\* a query_llm that submits its item before it raises the 429
RaiseRateLimitLate(c, key, item) ==
    /\ pc' = [pc EXCEPT ![c] = "failed"]
    /\ ret' = [ret EXCEPT ![c] = [status_code |-> 429]]
    /\ AddToBatch(c, key, item)
    /\ UNCHANGED admit_min

\* lines 514-518: wait_for_capacity returned False, HTTPException(429) is raised
RaiseRateLimit(c, key, item) ==
    /\ pc' = [pc EXCEPT ![c] = "failed"]
    /\ ret' = [ret EXCEPT ![c] = [status_code |-> 429]]
    /\ UNCHANGED <<admit_min, batchVars>>

\* query_llm from the rate gate on (lines 513-526), wait_for_capacity being at
\* retry_count: it raises 429, sleeps, or submits the item and waits
GateAndSubmit(c, r, retry_count) ==
    LET provider == Optimized(r)[1]
        out == WaitOutcome(usage, provider, now, retry_count)
        item == [query_text |-> r.query_text.id, brand_name |-> r.brand_name,
                 cache_key |-> CacheKey(r), owner |-> c]
    IN /\ usage' = WaitUsage(usage, provider, now, retry_count)
       /\ retry' = [retry EXCEPT ![c] = retry_count]
       /\ CASE out = "false" -> RaiseRateLimit(c, BatchKey(r), item)
            [] out = "sleep" ->
                 /\ pc' = [pc EXCEPT ![c] = "backoff"]
                 /\ UNCHANGED <<ret, admit_min, batchVars>>
            [] out = "true" ->
                 /\ pc' = [pc EXCEPT ![c] = "waiting"]
                 /\ admit_min' = [admit_min EXCEPT ![c] = now]
                 /\ AddToBatch(c, BatchKey(r), item)
                 /\ UNCHANGED ret

\* the exception of a dict lookup that misses
KeyError == [exception |-> "KeyError"]

\* a query_llm that asks the rate gate before it looks into the cache
CacheHitGated(c, r, entry) ==
    /\ cache_hits' = [cache_hits EXCEPT ![BatchKey(r)] = @ + 1]
    /\ pc' = [pc EXCEPT ![c] = IF InCostTable(Optimized(r)[1], Optimized(r)[2])
                               THEN "done" ELSE "failed"]
    /\ ret' = [ret EXCEPT ![c] = IF InCostTable(Optimized(r)[1], Optimized(r)[2])
                                 THEN FromCache(entry) ELSE KeyError]
    /\ usage' = WaitUsage(usage, Optimized(r)[1], now, 0)
    /\ UNCHANGED <<retry, admit_min, batchVars>>

\* lines 502-511: the cached entry is there, the hit is tracked and returned;
\* track_request reads COSTS[llm_type][llm_version] (line 404) after it has
\* counted the hit, which raises KeyError for a pair the table does not have
CacheHit(c, r, entry) ==
    /\ cache_hits' = [cache_hits EXCEPT ![BatchKey(r)] = @ + 1]
    /\ pc' = [pc EXCEPT ![c] = IF InCostTable(Optimized(r)[1], Optimized(r)[2])
                               THEN "done" ELSE "failed"]
    /\ ret' = [ret EXCEPT ![c] = IF InCostTable(Optimized(r)[1], Optimized(r)[2])
                                 THEN FromCache(entry) ELSE KeyError]
    /\ UNCHANGED <<usage, retry, admit_min, batchVars>>

\* query_llm(query_text, brand_name, llm_type, llm_version) up to its first
\* wait; the callers are numbered in the order of their calls
CallQueryLLM(c, r) ==
    /\ pc[c] = "idle"
    /\ \A d \in Callers : d < c => pc[d] # "idle"
    /\ req' = [req EXCEPT ![c] = r]
    /\ LET entry == RedisGet(cache, CacheKey(r), now)
       IN IF entry # Absent
          THEN CacheHit(c, r, entry)
          ELSE /\ GateAndSubmit(c, r, 0)
               /\ UNCHANGED cache_hits
    /\ UNCHANGED <<now, outsideQuery, posted, cache, cache_misses>>

\* the backoff sleep of wait_for_capacity is over: its recursive call
BackoffWake(c) ==
    /\ pc[c] = "backoff"
    /\ GateAndSubmit(c, req[c], retry[c] + 1)
    /\ UNCHANGED <<now, outsideQuery, req, posted, cache, optVars>>

\* _schedule_processing(key) starts running
ScheduleProcessing(c) ==
    /\ task[c].kind = "schedule" /\ task[c].pc = "start"
    /\ IF ~processing
       THEN /\ processing' = TRUE
            /\ task' = [task EXCEPT ![c].pc = "sleep"]
       ELSE /\ task' = [task EXCEPT ![c].pc = "done"]
            /\ UNCHANGED processing
    /\ UNCHANGED <<now, usage, outsideQuery, callerVars, batches, events, results, cache, optVars>>

\* _process_batch(key) up to the gather of _process_items: one request is
\* posted per item when the provider is openai
ProcessBatch(c) ==
    LET t == task[c]
        key == t.key
    IN /\ IF batches[key] = << >>
          THEN /\ processing' = FALSE
               /\ task' = [task EXCEPT ![c].pc = "done"]
               /\ UNCHANGED <<batches, events, posted>>
          ELSE /\ batches' = [batches EXCEPT ![key] = << >>]
               /\ events' = [events EXCEPT ![key] = {}]
               /\ task' = [task EXCEPT ![c] =
                              [t EXCEPT !.pc = "gather", !.batch = batches[key],
                                        !.events = events[key]]]
               /\ posted' = [x \in Callers |->
                               \/ posted[x]
                               \/ /\ key[1] = "openai"
                                  /\ \E i \in 1..Len(batches[key]) :
                                         batches[key][i].owner = x]
               /\ UNCHANGED processing
       /\ UNCHANGED <<now, usage, outsideQuery, pc, req, retry, ret, admit_min, results, cache, optVars>>

\* the task created at line 212 starts running
ProcessBatchStart(c) ==
    /\ task[c].kind = "process" /\ task[c].pc = "start"
    /\ ProcessBatch(c)

\* asyncio.sleep(max_wait_time) of _schedule_processing is over
TimerFires(c) ==
    /\ task[c].kind = "schedule" /\ task[c].pc = "sleep"
    /\ ProcessBatch(c)

\* event.set() for the events that got a result in nr: each waiter's
\* add_to_batch returns results[key:id(event)] and query_llm goes on (lines
\* 528-532), raising 500 on an error and tracking a cache miss otherwise.
\* The waiters touch nothing another coroutine reads, so their resumption is
\* taken together with the step that sets their events.  The finally branch
\* resets processing.
Finish(c, t, nr, acc, err) ==
    LET woken == {x \in Callers : pc[x] = "waiting" /\ results[x] = Absent /\ nr[x] # Absent}
        failed == {x \in woken : "error" \in DOMAIN nr[x]}
    IN /\ results' = nr
       /\ processing' = FALSE
       /\ task' = [task EXCEPT ![c] =
                      [t EXCEPT !.pc = "done", !.results = acc, !.error = err]]
       /\ pc' = [x \in Callers |->
                   IF x \in failed THEN "failed"
                   ELSE IF x \in woken THEN "done" ELSE pc[x]]
       /\ ret' = [x \in Callers |->
                    IF x \in failed
                    THEN [status_code |-> 500, detail |-> nr[x].error]
                    ELSE IF x \in woken THEN nr[x] ELSE ret[x]]
       /\ cache_misses' = [k \in BatchKeys |->
                             cache_misses[k]
                             + Cardinality({x \in woken \ failed : BatchKey(req[x]) = k})]
       /\ UNCHANGED usage

\* an except branch that spares the waiters whose item had a result already
FailBatchPartial(c, t, acc, err) ==
    Finish(c, t, [x \in Callers |->
                    IF \E i \in 1..Len(acc) : t.batch[i].owner = x
                    THEN acc[CHOOSE i \in 1..Len(acc) : t.batch[i].owner = x]
                    ELSE IF x \in t.events THEN [error |-> err] ELSE results[x]],
           acc, err)

\* the except branch of _process_batch: every event of the batch gets the error
FailBatch(c, t, acc, err) ==
    Finish(c, t, [x \in Callers |->
                    IF x \in t.events THEN [error |-> err] ELSE results[x]],
           acc, err)

\* lines 242-244: zip(events, results) pairs the set of events, in the order
\* the set iterates, with the list of results
Deliver(c, t, acc) ==
    \E order \in Orders(t.events) :
        Finish(c, t, [x \in Callers |->
                     IF \E i \in 1..Min(Len(acc), Len(order)) : order[i] = x
                     THEN acc[CHOOSE i \in 1..Min(Len(acc), Len(order)) : order[i] = x]
                     ELSE results[x]],
               acc, "")

HttpError == [http_error |-> TRUE]

\* the loop of lines 568-607 from item i on, acc being the results so far, up
\* to the next await redis.set: the response is checked, usage is recorded
Continue(c, t, acc, i) ==
    IF i > Len(t.batch)
       THEN Deliver(c, t, acc)
       ELSE \E resp \in ProviderResponses \cup {HttpError} :
               IF resp = HttpError
               THEN FailBatch(c, t, acc, "HTTPStatusError")
               ELSE /\ usage' = IncrementUsage(usage, t.key[1], now, resp.total_tokens)
                    /\ task' = [task EXCEPT ![c] =
                                  [t EXCEPT !.pc = "cache_set", !.idx = i,
                                            !.results = Append(acc,
                                                MakeResult(t.batch[i], resp))]]
                    /\ UNCHANGED <<results, processing, pc, ret, cache_misses>>

\* asyncio.gather(*tasks) is over: it raised, or every post has a response
GatherDone(c) ==
    /\ task[c].pc = "gather"
    /\ IF task[c].key[1] = "openai"
       THEN \/ FailBatch(c, task[c], << >>, "ConnectError")
            \/ Continue(c, task[c], << >>, 1)
       ELSE Deliver(c, task[c], << >>)
    /\ UNCHANGED <<now, outsideQuery, req, retry, admit_min, posted, batches, events,
                   cache, cache_hits>>

\* redis.set(..., nx=True) of item idx is over: the loop goes on
CacheSetDone(c) ==
    LET t == task[c]
        result == t.results[t.idx]
        present == RedisGet(cache, t.batch[t.idx].cache_key, now) # Absent
    IN /\ t.pc = "cache_set"
       /\ cache' = RedisSetNx(cache, t.batch[t.idx].cache_key,
                              MinimalData(result, now), now)
       /\ Continue(c, [t EXCEPT !.refused = @ \/ present], t.results, t.idx + 1)
       /\ UNCHANGED <<now, outsideQuery, req, retry, admit_min, posted, batches, events,
                      cache_hits>>

----------------------------------------------------------------------------
(* ResultQueue                                                             *)

\* add_result calls in one run
MaxItems == 2
\* flushes whose insert step raised in one run
MaxFailures == 1
\* ResultQueue.batch_size, configured small
queue_batch_size == 1
\* ResultQueue.flush_interval (60 seconds) in minutes
flush_interval == 1

\* the coroutines that call flush_to_database: the _background_flush task and
\* shutdown_event
Flushers == {"background", "shutdown"}

TableNames == {"keyword_queries", "ranking_history", "api_usage"}

\* a queued result: complete says that it has every key the transformation of
\* lines 668-696 reads
QueueItems == [id : 1..MaxItems, complete : BOOLEAN]

\* the float(... or 0) of line 641 for a last_flush key that was never set
NeverFlushed == -flush_interval

InitQueueVars ==
    /\ queue = << >>
    /\ last_flush = NeverFlushed
    /\ flusher = [f \in Flushers |->
                    [pc |-> IF f = "background" THEN "none" ELSE "idle",
                     results |-> << >>, k |-> 0]]
    /\ tables = [t \in TableNames |-> [id \in 1..MaxItems |-> 0]]
    /\ pushed = 0
    /\ failures = 0
    /\ flush_tasks = 0
    /\ flush_starts = 0

\* an add_result that creates a flush task on every push
StartsFlusherAlways(background_pc) == TRUE

\* line 633: self._flush_task is None or self._flush_task.done()
StartsFlusher(background_pc) == background_pc \in {"none", "ended"}

\* add_result(result): rpush, and the background task is created if there is none
PushResult(complete) ==
    /\ pushed < MaxItems
    /\ pushed' = pushed + 1
    /\ queue' = Append(queue, [id |-> pushed + 1, complete |-> complete])
    /\ IF StartsFlusher(flusher["background"].pc)
       THEN /\ flusher' = [flusher EXCEPT !["background"].pc = "poll"]
            /\ flush_tasks' = flush_tasks + 1
            /\ flush_starts' = flush_starts + 1
       ELSE UNCHANGED <<flusher, flushTaskVars>>

\* add_result called on its own, with any result
AddResult(complete) ==
    /\ PushResult(complete)
    /\ UNCHANGED <<now, outsideQueue, last_flush, tables, failures>>

\* a flusher that waits for both triggers (and for or)
ShouldFlushBoth(queue_length, time_since_flush) ==
    queue_length >= queue_batch_size /\ time_since_flush >= flush_interval

\* the condition of line 644
ShouldFlush(queue_length, time_since_flush) ==
    queue_length >= queue_batch_size \/ time_since_flush >= flush_interval

\* one round of the loop of _background_flush: flush when the queue is long
\* enough or the last flush is old enough, then sleep a second
Poll ==
    /\ flusher["background"].pc = "poll"
    /\ ShouldFlush(Len(queue), now - last_flush)
    /\ flusher' = [flusher EXCEPT !["background"].pc = "pop"]
    /\ UNCHANGED <<now, outsideQueue, flushTaskVars, queue, last_flush, tables, pushed, failures>>

\* the llen or get of lines 640-641 raises (the redis connection is down):
\* nothing in _background_flush catches it, and the task is done
PollRaises ==
    /\ flusher["background"].pc = "poll"
    /\ flusher' = [flusher EXCEPT !["background"].pc = "ended"]
    /\ flush_tasks' = flush_tasks - 1
    /\ UNCHANGED <<now, outsideQueue, queue, last_flush, tables, pushed, failures, flush_starts>>

\* shutdown_event: await result_queue.flush_to_database()
ShutdownFlush ==
    /\ flusher["shutdown"].pc = "idle"
    /\ flusher' = [flusher EXCEPT !["shutdown"].pc = "pop"]
    /\ UNCHANGED <<now, outsideQueue, flushTaskVars, queue, last_flush, tables, pushed, failures>>

\* where flush_to_database returns to
Returned(f) ==
    [pc |-> IF f = "background" THEN "poll" ELSE "returned", results |-> << >>, k |-> 0]

\* lines 663-696 for the popped results: a missing key raises into the except
\* branch, otherwise the three inserts are started
Transformed(popped) ==
    IF \E i \in 1..Len(popped) : ~popped[i].complete
    THEN [pc |-> "requeue", results |-> popped, k |-> 1]
    ELSE [pc |-> "insert", results |-> popped, k |-> 0]

\* one lpop of the loop of lines 654-658, and what follows it without a wait
FlushPop(f) ==
    /\ flusher[f].pc = "pop"
    /\ IF queue = << >>
       THEN /\ flusher' = [flusher EXCEPT ![f] =
                              IF flusher[f].results = << >>
                              THEN Returned(f)
                              ELSE Transformed(flusher[f].results)]
            /\ UNCHANGED queue
       ELSE LET popped == Append(flusher[f].results, Head(queue))
            IN /\ queue' = Tail(queue)
               /\ flusher' = [flusher EXCEPT ![f] =
                                 IF Len(popped) < queue_batch_size
                                 THEN [@ EXCEPT !.results = popped]
                                 ELSE Transformed(popped)]
    /\ UNCHANGED <<now, outsideQueue, flushTaskVars, last_flush, tables, pushed, failures>>

\* the rows one insert adds to a table: one per result
Rows(popped) ==
    [id \in 1..MaxItems |-> Cardinality({i \in 1..Len(popped) : popped[i].id = id})]

\* the tables in the order lines 700-702 call execute() on them
InsertOrder == <<"keyword_queries", "ranking_history", "api_usage">>

\* lines 699-703 are over.  The client of line 70 is the synchronous one (line
\* 724 reads execute().data), so the three execute() calls run in turn while
\* the arguments of gather are evaluated: the first n of them stored their
\* rows and the next one raised, or all three did and then gather returns or
\* raises (it takes awaitables, and gets responses).
FlushInsert(f) ==
    /\ flusher[f].pc = "insert"
    /\ \E n \in 0..Len(InsertOrder), raised \in BOOLEAN :
          /\ n < Len(InsertOrder) => raised
          /\ tables' = [t \in TableNames |->
                          IF \E i \in 1..n : InsertOrder[i] = t
                          THEN [id \in 1..MaxItems |->
                                  tables[t][id] + Rows(flusher[f].results)[id]]
                          ELSE tables[t]]
          /\ IF ~raised
             THEN /\ flusher' = [flusher EXCEPT ![f].pc = "stamp"]
                  /\ UNCHANGED failures
             ELSE /\ failures < MaxFailures
                  /\ failures' = failures + 1
                  /\ flusher' = [flusher EXCEPT ![f].pc = "requeue", ![f].k = 1]
    /\ UNCHANGED <<now, outsideQueue, flushTaskVars, queue, last_flush, pushed>>

\* line 706: the last flush time is set, flush_to_database returns
FlushStamp(f) ==
    /\ flusher[f].pc = "stamp"
    /\ last_flush' = now
    /\ flusher' = [flusher EXCEPT ![f] = Returned(f)]
    /\ UNCHANGED <<now, outsideQueue, flushTaskVars, queue, tables, pushed, failures>>

\* an except branch that re-queues from the second result on
RequeueSkipFirst(q, popped, k) == IF k = 1 THEN q ELSE Append(q, popped[k])

\* the queue after the rpush of line 712 for the k-th popped result
Requeue(q, popped, k) == Append(q, popped[k])

\* one rpush of the except branch; after the last one flush_to_database returns
FlushRequeue(f) ==
    /\ flusher[f].pc = "requeue"
    /\ queue' = Requeue(queue, flusher[f].results, flusher[f].k)
    /\ flusher' = [flusher EXCEPT ![f] =
                      IF flusher[f].k < Len(flusher[f].results)
                      THEN [@ EXCEPT !.k = @ + 1]
                      ELSE Returned(f)]
    /\ UNCHANGED <<now, outsideQueue, flushTaskVars, last_flush, tables, pushed, failures>>

----------------------------------------------------------------------------
(* Monitoring tasks: the /tasks routes, the scheduler, startup recovery    *)
(* and execute_monitoring_task                                             *)

\* invocations of execute_monitoring_task ever started
MaxExecs == 2
\* process restarts
MaxRestarts == 1

\* the uuids create_monitoring_task gives out
TaskIds == {"t1"}

\* TaskCreate.frequency_minutes
DefaultFrequency == 60

\* "last_run": None
NoRun == -1

\* a row that was deleted: its uuid is never given to another task
Deleted == [deleted |-> TRUE]

Exists(t) == db[t] # Absent /\ db[t] # Deleted

\* the bodies of PATCH /tasks/{task_id}
TaskUpdates == { [active |-> TRUE], [active |-> FALSE], [llm_version |-> "gpt-4"] }

\* the keys update_monitoring_task compares (line 984), of those a row has here
ScheduleKeys == {"frequency_minutes", "active", "llm_version"}

\* {**current_task, **task_update}
Merged(current_task, task_update) ==
    [k \in DOMAIN current_task |->
        IF k \in DOMAIN task_update THEN task_update[k] ELSE current_task[k]]

\* a job id: the task id alone, or the task id after a prefix
JobId(prefix, t) == <<prefix, t>>

\* scheduler.add_job(execute_monitoring_task, "interval", id=task_id, ...)
IntervalJob(t, brand_id, llm_version) ==
    [id |-> JobId("", t), trigger |-> "interval", task |-> t, brand_id |-> brand_id,
     llm_version |-> llm_version]

\* scheduler.add_job(execute_monitoring_task, "date", id=f"task_{task['id']}", ...)
DateJob(t, brand_id, llm_version) ==
    [id |-> JobId("task_", t), trigger |-> "date", task |-> t, brand_id |-> brand_id,
     llm_version |-> llm_version]

\* scheduler.remove_job(job_id), guarded by scheduler.get_job(job_id)
RemoveJob(store, job_id) == {j \in store : j.id # job_id}

\* add_job: a job with the same id is replaced (the callers below never add an
\* id that is still in the store without replace_existing)
AddJob(store, job) == RemoveJob(store, job.id) \cup {job}

\* an invocation of execute_monitoring_task(task_id, brand_id, ...) that has not
\* run a line yet
NewExec(t, brand_id, llm_version) ==
    [task |-> t, brand_id |-> brand_id, llm_version |-> llm_version, pc |-> "start",
     result |-> Absent, recorded |-> Absent, served |-> Absent]

\* the exceptions query_llm raises: the 429 of line 517 and the provider error
\* that _process_items hands to every waiter
QueryErrors == { [status_code |-> 429], HttpError }

\* the brands tasks are created for
TaskBrands == {"acme"}

\* the query text and the provider tasks are created with
TaskQuery == SimpleQuery

TaskLlmType == "openai"

\* select_optimal_model(query_text): the OpenAI model by the number of words
SelectOptimalModel(q) ==
    IF q.words < 50 THEN "text-ada-001"
    ELSE IF q.words < 200 THEN "gpt-3.5-turbo"
    ELSE "gpt-4"

\* the models a task row can name: the one create_monitoring_task stores and
\* the one an update can set
TaskVersions == {SelectOptimalModel(TaskQuery), "gpt-4"}

\* the jobs the handlers below can add
TaskJobs ==
    { IntervalJob(t, b, v) : t \in TaskIds, b \in TaskBrands, v \in TaskVersions } \cup
    { DateJob(t, b, v) : t \in TaskIds, b \in TaskBrands, v \in TaskVersions }

\* what query_llm returns to execute_monitoring_task
QueryResults == { MakeResult([brand_name |-> b], r) : b \in TaskBrands, r \in ProviderResponses }

\* the keys of result_data (lines 736-749)
ResultDataKeys ==
    { "id", "brand_id", "topic_id", "query_text", "llm_type", "llm_version",
      "llm_response", "brand_mentioned", "sentiment_score", "ranking_position",
      "tokens_used", "created_at" }

\* the keys flush_to_database reads with result[...] (lines 668-696);
\* topic_id is read with get
TransformReads ==
    { "brand_id", "query_text", "llm_type", "llm_version", "llm_response",
      "brand_mentioned", "sentiment_score", "ranking_position",
      "organization_id", "tokens_used" }

DirectTables == {"keyword_queries", "search_results"}

Finished(x) == x.pc \in {"returned", "failed", "done"}

InitSchedVars ==
    /\ db = [t \in TaskIds |-> Absent]
    /\ jobs = {}
    /\ execs = << >>
    /\ direct_rows = [t \in DirectTables |-> 0]
    /\ restarts = 0

\* POST /tasks for OpenAI with a brand that exists and a budget that allows the
\* task: the model is replaced by the one select_optimal_model names, the row
\* is inserted, and an active task gets its interval job and a first run as a
\* background task
CreateTask(brand_id, active) ==
    /\ \E t \in TaskIds :
          /\ db[t] = Absent
          /\ db' = [db EXCEPT ![t] =
                       [brand_id |-> brand_id, llm_version |-> SelectOptimalModel(TaskQuery),
                        frequency_minutes |-> DefaultFrequency,
                        active |-> active, last_run |-> NoRun, next_run |-> now]]
          /\ IF active
             THEN /\ Len(execs) < MaxExecs
                  /\ jobs' = AddJob(jobs, IntervalJob(t, brand_id, db'[t].llm_version))
                  /\ execs' = Append(execs, NewExec(t, brand_id, db'[t].llm_version))
             ELSE UNCHANGED <<jobs, execs>>
    /\ UNCHANGED <<rateVars, queryVars, queueVars, costVars, direct_rows, restarts>>

\* PATCH /tasks/{task_id}: the row is updated; if a compared key changed, the job
\* named task_id is removed and, for an active task, added again
UpdateTask(t, task_update) ==
    /\ Exists(t)
    /\ db' = [db EXCEPT ![t] = Merged(db[t], task_update)]
    /\ LET current_task == db[t]
           schedule_update_needed ==
               \E key \in ScheduleKeys \cap DOMAIN task_update :
                   task_update[key] # current_task[key]
           removed == RemoveJob(jobs, JobId("", t))
           active == IF "active" \in DOMAIN task_update
                     THEN task_update["active"] ELSE current_task.active
       IN jobs' = IF ~schedule_update_needed THEN jobs
                  ELSE IF active
                  THEN AddJob(removed, IntervalJob(t, db'[t].brand_id, db'[t].llm_version))
                  ELSE removed
    /\ UNCHANGED <<rateVars, queryVars, queueVars, costVars, execs, direct_rows, restarts>>

\* DELETE /tasks/{task_id}: the job named task_id is removed if there is one,
\* then the row is deleted
DeleteTask(t) ==
    /\ Exists(t)
    /\ jobs' = RemoveJob(jobs, JobId("", t))
    /\ db' = [db EXCEPT ![t] = Deleted]
    /\ UNCHANGED <<rateVars, queryVars, queueVars, costVars, execs, direct_rows, restarts>>

\* the process is started again after it stopped with no invocation and no
\* flush under way (the flush loop is not part of SpecTasks): the job store and the flush task were in memory, and
\* startup_event adds a one-shot job for every row with active = True
Startup ==
    /\ restarts < MaxRestarts
    /\ \A e \in 1..Len(execs) : Finished(execs[e])
    /\ \A f \in Flushers : flusher[f].pc \in {"none", "poll", "ended", "idle", "returned"}
    /\ restarts' = restarts + 1
    /\ jobs' = { DateJob(t, db[t].brand_id, db[t].llm_version) : t \in {u \in TaskIds : Exists(u) /\ db[u].active} }
    /\ flusher' = [f \in Flushers |->
                     [pc |-> IF f = "background" THEN "none" ELSE "idle",
                      results |-> << >>, k |-> 0]]
    /\ flush_tasks' = 0
    /\ UNCHANGED <<rateVars, queryVars, costVars, queue, last_flush, tables, pushed,
                   failures, flush_starts, db, execs, direct_rows>>

\* a trigger fires: the scheduler calls execute_monitoring_task with the job's
\* args; a date job is finished by its one run, an interval job stays
JobFires(j) ==
    /\ j \in jobs
    /\ Len(execs) < MaxExecs
    /\ execs' = Append(execs, NewExec(j.task, j.brand_id, j.llm_version))
    /\ jobs' = IF j.trigger = "date" THEN jobs \ {j} ELSE jobs
    /\ UNCHANGED <<rateVars, queryVars, queueVars, costVars, db, direct_rows, restarts>>

\* lines 720-733: the brand is looked up; without it the function returns,
\* with it query_llm is awaited
ExecStart(e, found) ==
    /\ e \in 1..Len(execs)
    /\ execs[e].pc = "start"
    /\ execs' = [execs EXCEPT ![e].pc = IF found THEN "query" ELSE "returned"]
    /\ UNCHANGED <<rateVars, queryVars, queueVars, costVars, db, jobs, direct_rows, restarts>>

\* an except branch that records the run before it raises again
ExecRaiseStamped(e, error) ==
    /\ execs' = [execs EXCEPT ![e].pc = "failed", ![e].result = error]
    /\ db' = IF Exists(execs[e].task)
             THEN [db EXCEPT ![execs[e].task].last_run = now]
             ELSE db
    /\ UNCHANGED <<direct_rows, queueVars>>

\* query_llm raised: lines 796-798 log and raise again
ExecRaise(e, error) ==
    /\ execs' = [execs EXCEPT ![e].pc = "failed", ![e].result = error]
    /\ UNCHANGED <<db, direct_rows, queueVars>>

\* llm_type and llm_version of result_data (lines 741-742): the arguments of
\* execute_monitoring_task
Recorded_llm(llm_version) == [llm_type |-> TaskLlmType, llm_version |-> llm_version]

\* the pair query_llm went on with after optimize_query (lines 488-495): it is
\* in the cache key, the batch key and the provider request
Served_llm(llm_version) ==
    [llm_type |-> OptimizeQuery(TaskQuery, TaskLlmType, llm_version)[1],
     llm_version |-> OptimizeQuery(TaskQuery, TaskLlmType, llm_version)[2]]

\* query_llm returned: lines 736-785 up to the rpush of add_result; each of the
\* two inserts stores its row or raises into its own except branch
ExecStore(e, result) ==
    /\ execs' = [execs EXCEPT ![e].pc = "push", ![e].result = result,
                              ![e].recorded = Recorded_llm(execs[e].llm_version),
                              ![e].served = Served_llm(execs[e].llm_version)]
    /\ \E stored \in SUBSET DirectTables :
          direct_rows' = [t \in DirectTables |->
                            IF t \in stored THEN direct_rows[t] + 1 ELSE direct_rows[t]]
    /\ UNCHANGED <<db, queueVars>>

\* the await of line 733 is over
ExecQueryDone(e, outcome) ==
    /\ e \in 1..Len(execs)
    /\ execs[e].pc = "query"
    /\ IF outcome \in QueryErrors
       THEN ExecRaise(e, outcome)
       ELSE /\ BrandMentioned(execs[e].brand_id, outcome.llm_response) = outcome.brand_mentioned
            /\ ExecStore(e, outcome)
    /\ UNCHANGED <<rateVars, queryVars, costVars, jobs, restarts>>

\* the row after the update of line 790
RunStamped(row, minute) ==
    [row EXCEPT !.last_run = minute, !.next_run = minute + row.frequency_minutes]

\* the rpush of add_result is over: result_data is in the queue, the flush task
\* is started if there is none, and lines 788-792 set the run times unless the
\* row is gone or the update raised
ExecPushDone(e, updated) ==
    /\ e \in 1..Len(execs)
    /\ execs[e].pc = "push"
    /\ PushResult(TransformReads \subseteq ResultDataKeys)
    /\ execs' = [execs EXCEPT ![e].pc = "done", ![e].result = Absent]
    /\ db' = IF Exists(execs[e].task) /\ updated
             THEN [db EXCEPT ![execs[e].task] = RunStamped(@, now)]
             ELSE db
    /\ UNCHANGED <<rateVars, queryVars, costVars, last_flush, tables, failures,
                   jobs, direct_rows, restarts>>

----------------------------------------------------------------------------
(* CostOptimizer.track_request called between optimize_query calls         *)

\* track_request calls per model
MaxTracks == 1

\* a track_request that scores the model down on every cache miss
TrackRequestScoring(key, is_cache_hit) ==
    /\ cache_hits[key] + cache_misses[key] < MaxTracks
    /\ cache_hits' = IF is_cache_hit THEN [cache_hits EXCEPT ![key] = @ + 1] ELSE cache_hits
    /\ cache_misses' = IF is_cache_hit THEN cache_misses
                       ELSE [cache_misses EXCEPT ![key] = @ + 1]
    /\ model_performance' =
          IF is_cache_hit THEN model_performance
          ELSE [k \in (DOMAIN model_performance) \cup {key} |-> PerformanceFloor - 1]
    /\ UNCHANGED <<rateVars, callerVars, batchVars, cache, queueVars, schedVars,
                   opt_in, opt_out, recommended, opt_first>>

\* track_request(llm_type, llm_version, tokens_used, is_cache_hit): the hit or
\* the miss is counted (usage_history and cost_savings are read by
\* get_optimization_stats alone); model_performance is not written
TrackRequest(key, is_cache_hit) ==
    /\ cache_hits[key] + cache_misses[key] < MaxTracks
    /\ cache_hits' = IF is_cache_hit THEN [cache_hits EXCEPT ![key] = @ + 1] ELSE cache_hits
    /\ cache_misses' = IF is_cache_hit THEN cache_misses
                       ELSE [cache_misses EXCEPT ![key] = @ + 1]
    /\ UNCHANGED <<rateVars, callerVars, batchVars, cache, queueVars, schedVars, costVars>>

\* the query texts and models of the calls below
TrackedTexts == {SimpleQuery, ComplexQuery}

TrackedModels == { <<"openai", "gpt-4">>, <<"openai", "gpt-3.5-turbo">>,
                   <<"anthropic", "claude-2">>, <<"anthropic", "claude-instant">> }

\* the models query_llm tracks requests for: those it ran and the table lists
TrackKeys == {k \in BatchKeys : InCostTable(k[1], k[2])}

----------------------------------------------------------------------------
(* Specifications                                                          *)

Init == InitCostVars /\ InitRateVars /\ InitQueryVars /\ InitQueueVars /\ InitSchedVars

Next ==
    \/ Tick
    \/ \E c \in Callers, r \in Requests : CallQueryLLM(c, r)
    \/ \E c \in Callers : BackoffWake(c)
    \/ \E c \in Callers : ScheduleProcessing(c)
    \/ \E c \in Callers : ProcessBatchStart(c)
    \/ \E c \in Callers : TimerFires(c)
    \/ \E c \in Callers : GatherDone(c)
    \/ \E c \in Callers : CacheSetDone(c)

Spec == Init /\ [][Next]_vars

\* query_llm called for models the cost table does not list
NextUnknown ==
    \/ Tick
    \/ \E c \in Callers, r \in UnknownRequests : CallQueryLLM(c, r)
    \/ \E c \in Callers : BackoffWake(c)
    \/ \E c \in Callers : ScheduleProcessing(c)
    \/ \E c \in Callers : ProcessBatchStart(c)
    \/ \E c \in Callers : TimerFires(c)
    \/ \E c \in Callers : GatherDone(c)
    \/ \E c \in Callers : CacheSetDone(c)

SpecUnknown == Init /\ [][NextUnknown]_vars

NextOptimize ==
    \/ \E q \in QueryTexts, i \in 1..Len(COSTS) :
          OptimizeCall(q, COSTS[i].platform, COSTS[i].model)
    \/ RecommendCall

SpecOptimize == Init /\ [][NextOptimize]_vars

NextTrack ==
    \/ \E q \in TrackedTexts, m \in TrackedModels : ProbeCall(q, m[1], m[2])
    \/ \E q \in TrackedTexts, m \in TrackedModels : OptimizeCall(q, m[1], m[2])
    \/ \E key \in TrackKeys, is_cache_hit \in BOOLEAN : TrackRequest(key, is_cache_hit)

SpecTrack == Init /\ [][NextTrack]_vars

NextQueue ==
    \/ Tick
    \/ \E complete \in BOOLEAN : AddResult(complete)
    \/ Poll
    \/ PollRaises
    \/ ShutdownFlush
    \/ \E f \in Flushers : FlushPop(f)
    \/ \E f \in Flushers : FlushInsert(f)
    \/ \E f \in Flushers : FlushStamp(f)
    \/ \E f \in Flushers : FlushRequeue(f)

SpecQueue == Init /\ [][NextQueue]_vars

NextRate ==
    \/ Tick
    \/ \E p \in Providers : CheckCall(p)
    \/ \E p \in Providers : IncrementCall(p, 1)
    \/ \E w \in Waiters, p \in Providers : WaitCall(w, p)
    \/ \E w \in Waiters : WaitWake(w)

SpecRate == Init /\ [][NextRate]_vars

NextTasks ==
    \/ \E b \in TaskBrands, active \in BOOLEAN : CreateTask(b, active)
    \/ \E t \in TaskIds, u \in TaskUpdates : UpdateTask(t, u)
    \/ \E t \in TaskIds : DeleteTask(t)
    \/ Startup
    \/ \E j \in TaskJobs : JobFires(j)
    \/ \E e \in 1..MaxExecs, found \in BOOLEAN : ExecStart(e, found)
    \/ \E e \in 1..MaxExecs, o \in QueryErrors \cup QueryResults : ExecQueryDone(e, o)
    \/ \E e \in 1..MaxExecs, updated \in BOOLEAN : ExecPushDone(e, updated)

SpecTasks == Init /\ [][NextTasks]_vars

\* a backoff sleep always ends
FairSpecRate == SpecRate /\ \A w \in Waiters : WF_vars(WaitWake(w))

----------------------------------------------------------------------------
(* Claims on query_llm, BatchProcessor and the cache                       *)

\* the provider a caller's request goes to
ProviderOf(c) == Optimized(req[c])[1]

Quiescent ==
    /\ \A c \in Callers : task[c].pc \in {"none", "done"}
    /\ \A c \in Callers : pc[c] \in {"waiting", "done", "failed"}

\* C2 (as claimed): every submitted item is completed: once every batch task
\* has ended and nobody is left to submit, no caller is still waiting.
C2_NoWaiterLeftBehind == Quiescent => \A c \in Callers : pc[c] # "waiting"

C6_FullBatchDispatched ==
    \A k \in BatchKeys :
        Len(batches[k]) >= batch_size =>
            \E c \in Callers :
                task[c].kind = "process" /\ task[c].key = k /\ task[c].pc = "start"

\* C7: when the gateway call of a batch raised, every waiter of the batch is
\* resolved with that one error, none with a result.
C7_ErrorToEveryWaiter ==
    \A t \in Callers :
        task[t].pc = "done" /\ task[t].error # "" =>
            \A x \in task[t].events :
                /\ results[x] = [error |-> task[t].error]
                /\ pc[x] = "failed"
                /\ ret[x] = [status_code |-> 500, detail |-> task[t].error]

\* C7 witness: a batch of two waiters failed at its second response, after the
\* first item had been processed
C7_Witness ==
    \E t \in Callers :
        /\ task[t].pc = "done" /\ task[t].error # ""
        /\ Cardinality(task[t].events) >= 2
        /\ Len(task[t].results) >= 1

\* C10: while a cache entry has not expired, no step changes it: a later
\* store-if-absent for the same key is a no-op.
C10_CacheEntryImmutable ==
    [][\A k \in CacheKeys :
          (RedisGet(cache, k, now) # Absent /\ now' < cache[k].expires)
              => cache'[k] = cache[k]]_vars

\* C10 witness: a batch computed, for a key that was present when it came to
\* store it, a result other than the entry that is there
C10_Witness ==
    \E t \in Callers :
        /\ task[t].pc = "done" /\ task[t].refused
        /\ \E i \in 1..Len(task[t].results) :
              LET k == task[t].batch[i].cache_key
              IN /\ RedisGet(cache, k, now) # Absent
                 /\ FromCache(cache[k]) # task[t].results[i]

\* caller c has an item in a forming batch, or an event in a forming batch
Submitted(c) ==
    \E k \in BatchKeys :
        \/ c \in events[k]
        \/ \E i \in 1..Len(batches[k]) : batches[k][i].owner = c

\* C11: a query_llm whose wait_for_capacity returned False has raised 429 after
\* max_retries attempts, with nothing submitted to the batcher, no task
\* created, no provider request and no admission.
C11_RateLimitedUntouched ==
    \A c \in Callers :
        ret[c] = [status_code |-> 429] =>
            /\ pc[c] = "failed"
            /\ retry[c] = max_retries
            /\ ~Submitted(c)
            /\ task[c] = NoTask
            /\ results[c] = Absent
            /\ ~posted[c]
            /\ admit_min[c] = -1

\* C11 witness: a caller was refused while another caller's request got through
C11_Witness ==
    \E c, d \in Callers :
        /\ ret[c] = [status_code |-> 429]
        /\ posted[d] /\ pc[d] = "done"

----------------------------------------------------------------------------
(* Claims on LLMCosts and CostOptimizer                                    *)

\* the entries of the price table whose estimated cost is within the ceiling
Affordable == {i \in 1..Len(COSTS) : EstimateCost(COSTS[i]) <= MaxCostPerQuery}

\* C18 (as claimed): the model recommended when the performance score is below
\* 0.7 is an affordable entry of the price table that no affordable entry
\* undercuts.
C18_RecommendsCheapest ==
    recommended # Absent =>
        \E i \in Affordable :
            /\ COSTS[i].platform = recommended.platform
            /\ COSTS[i].model = recommended.model
            /\ \A j \in Affordable : EstimateCost(COSTS[i]) <= EstimateCost(COSTS[j])

\* the last optimize_query call was for a text of 10 words with no keyword
TenPlainWords ==
    /\ opt_in # Absent
    /\ opt_in.query_text.words = 10
    /\ opt_in.query_text.keywords = 0

\* the structure marks of the last query text: '?', and/or, a bracket
Marks ==
    (IF opt_in.query_text.question THEN 1 ELSE 0)
    + (IF opt_in.query_text.conj THEN 1 ELSE 0)
    + (IF opt_in.query_text.bracket THEN 1 ELSE 0)

\* the score is below 0.3 and a premium model went to its cheap sibling
Downgraded ==
    /\ Complexity(opt_in.query_text) < SimpleThreshold
    /\ (opt_in.llm_type = "openai" /\ opt_in.llm_version = "gpt-4")
          => opt_out = [llm_type |-> "openai", llm_version |-> "gpt-3.5-turbo"]
    /\ (opt_in.llm_type = "anthropic" /\ opt_in.llm_version = "claude-2")
          => opt_out = [llm_type |-> "anthropic", llm_version |-> "claude-instant"]

\* C19 (as claimed): every text of 10 words with no complexity keyword scores
\* below 0.3 and has a premium model downgraded.
C19_TenWordsDowngraded == TenPlainWords => Downgraded

\* C19 (amended): every text of 10 words with no complexity keyword and at most
\* two of the three structure marks scores below 0.3 and has a premium model
\* downgraded to its cheap sibling.
C19_TenWordsFewMarksDowngraded == (TenPlainWords /\ Marks <= 2) => Downgraded

\* C19 witness: such a text with two structure marks, asked of gpt-4
C19_Witness ==
    /\ TenPlainWords /\ Marks = 2
    /\ opt_in.llm_version = "gpt-4"
    /\ opt_out = [llm_type |-> "openai", llm_version |-> "gpt-3.5-turbo"]

----------------------------------------------------------------------------
(* Claims on ResultQueue                                                   *)

InQueue(id) == \E i \in 1..Len(queue) : queue[i].id = id

InFlight(id) ==
    \E f \in Flushers : \E i \in 1..Len(flusher[f].results) : flusher[f].results[i].id = id

InTable(t, id) == tables[t][id] > 0

Persisted(id) == \A t \in TableNames : InTable(t, id)

\* C5: no pushed item is lost by a failing flush: each one is in the queue, in
\* the popped batch of a flush that has not returned, or in all three tables;
\* and the items of a flush whose inserts succeeded are in all three tables.
C5_NoItemLost ==
    /\ \A id \in 1..pushed : InQueue(id) \/ InFlight(id) \/ Persisted(id)
    /\ \A f \in Flushers :
          flusher[f].pc = "stamp" =>
              \A i \in 1..Len(flusher[f].results) : Persisted(flusher[f].results[i].id)

\* C5 witness: an insert batch failed after one table took its rows, the flush
\* has returned, and the item is back in the queue
C5_Witness ==
    /\ failures >= 1
    /\ \E id \in 1..pushed :
          /\ InQueue(id) /\ ~InFlight(id) /\ ~Persisted(id)
          /\ \E t \in TableNames : InTable(t, id)
    /\ \A f \in Flushers : flusher[f].pc \in {"none", "idle", "poll", "ended", "returned"}

\* C21: at most one _background_flush task is alive at any time: a push while
\* one is alive creates none, and a push when none is alive (none was created
\* yet, or the last one has ended) creates exactly one.
C21_OneFlusher ==
    /\ [](flush_tasks <= 1)
    /\ [][pushed' = pushed + 1 =>
            /\ flush_tasks' = 1
            /\ flush_starts' = flush_starts + (1 - flush_tasks)]_vars

\* the first flush task has ended, and the next push created a second one
C21_Witness ==
    /\ flush_starts = 2
    /\ flush_tasks = 1
    /\ flusher["background"].pc = "poll"

\* C29: items are persisted in push order, also across a failed flush: the
\* queue holds them in the order of their pushes, and an item is in the three
\* tables only if every item pushed before it is.
C29_PersistedInPushOrder ==
    /\ \A i, j \in 1..Len(queue) : i < j => queue[i].id < queue[j].id
    /\ \A id1, id2 \in 1..pushed : (id1 < id2 /\ Persisted(id2)) => Persisted(id1)

\* the background flusher is between two polls
Polling == flusher["background"].pc = "poll"

\* C14: a poll of the background flusher starts a flush exactly when the queue
\* holds at least batch_size items or at least flush_interval has passed since
\* the last successful flush, and no flush holds more than batch_size popped
\* items.
C14_FlushTrigger ==
    /\ [](Polling =>
            (ENABLED Poll <=>
                (Len(queue) >= queue_batch_size \/ now - last_flush >= flush_interval)))
    /\ [][(Polling /\ flusher'["background"].pc = "pop") =>
            (Len(queue) >= queue_batch_size \/ now - last_flush >= flush_interval)]_vars
    /\ [](\A f \in Flushers : Len(flusher[f].results) <= queue_batch_size)

\* C14 witness: a flush was started by the size trigger alone, in the minute of
\* the last successful flush
C14_Witness ==
    /\ flusher["background"].pc = "pop"
    /\ flusher["background"].results = << >>
    /\ Len(queue) >= queue_batch_size
    /\ now - last_flush < flush_interval
    /\ flusher["shutdown"].pc = "idle"

----------------------------------------------------------------------------
(* Claims on APILimits                                                     *)

WaitReturned(w) == wpc[w] \in {"true", "false"}

\* C8: wait_for_capacity called with attempt 0 terminates: at most max_retries
\* admission checks and max_retries sleeps; it returns true at the first check
\* that finds capacity and false once the attempt count reaches max_retries.
C8_WaitBounded ==
    /\ [](\A w \in Waiters :
            /\ wretry[w] <= max_retries
            /\ wchecks[w] <= max_retries
            /\ wsleeps[w] <= max_retries
            /\ wpc[w] = "sleep" => wchecks[w] = wsleeps[w] /\ wretry[w] < max_retries
            /\ wpc[w] = "true" => wchecks[w] = wsleeps[w] + 1 /\ wretry[w] < max_retries
            /\ wpc[w] = "false" => /\ wretry[w] = max_retries
                                   /\ wchecks[w] = max_retries
                                   /\ wsleeps[w] = max_retries)
    /\ \A w \in Waiters : (wpc[w] = "sleep") ~> WaitReturned(w)

\* C8 witness: an invocation that used up every attempt and returned false
C8_Witness == \E w \in Waiters : wpc[w] = "false" /\ wsleeps[w] = max_retries

\* C9 (as claimed): with a ceiling of 1, of the admission checks made for a
\* provider within one minute only the first returns true.
C9_SecondCheckRefused == \A p \in Providers : granted[p].count <= requests_per_minute

\* the requests counted for the provider in the current minute
CurrentRequests(p) == IF now \in DOMAIN usage[p] THEN usage[p][now].requests ELSE 0

\* the step holds an admission check for p that returned True
Admitted(p) ==
    granted'[p].count = (IF granted[p].minute = now THEN granted[p].count ELSE 0) + 1

\* C22: after an admission check for a provider its usage map holds exactly
\* one window, the one of the current minute; the decision depends on the
\* requests counted in the current minute alone; a window made for a new
\* minute starts with a request count of zero.  (A check that changes nothing
\* of the history is one that found the current window alone and full.)
C22_OneWindowAfterCheck ==
    [][\A p \in Providers :
          granted'[p] # granted[p] =>
              /\ DOMAIN usage'[p] = {now}
              /\ Admitted(p) <=> CurrentRequests(p) < requests_per_minute
              /\ now \notin DOMAIN usage[p] => usage'[p][now].requests = 0
              /\ now \in DOMAIN usage[p] => usage'[p][now] = usage[p][now]]_vars

\* a waiter found the minute full, slept, and was admitted in the next minute
\* although the earlier minute had reached the ceiling
C22_Witness ==
    \E w \in Waiters :
        /\ wpc[w] = "true"
        /\ wsleeps[w] >= 1
        /\ now >= 1
        /\ DOMAIN usage[wprov[w]] = {now}
        /\ usage[wprov[w]][now].requests = 0


\* C28: wait_for_capacity returns false only when the provider has no capacity
\* at that moment: an admission check made at the moment of the return would
\* refuse too.
C28_FalseOnlyWithoutCapacity ==
    [][\A w \in Waiters :
          (wpc[w] # "false" /\ wpc'[w] = "false")
              => ~CanMakeRequest(usage, wprov'[w], now)]_vars

----------------------------------------------------------------------------
(* Claims on monitoring tasks (specification SpecTasks)                    *)

\* the state execute_monitoring_task may write outside its own locals
TaskEffects == <<db, direct_rows, queue, pushed>>

\* C12: an invocation of execute_monitoring_task that ends in failure because
\* query_llm raised leaves last_run and next_run of every task as they were,
\* writes no row to keyword_queries or search_results and pushes nothing to
\* the result queue: neither the step that fails nor the step that led to the
\* query changes any of them.
C12_FailureLeavesNoTrace ==
    [][\A e \in 1..Len(execs) :
          (execs'[e] # execs[e] /\ execs'[e].pc \in {"query", "failed"})
              => TaskEffects' = TaskEffects]_vars

\* an invocation failed on a 429 for a task that is still there and was never
\* stamped, while another invocation got through
C12_Witness ==
    \E e \in 1..Len(execs), d \in 1..Len(execs) :
        /\ execs[e].pc = "failed"
        /\ execs[e].result = [status_code |-> 429]
        /\ Exists(execs[e].task)
        /\ execs[d].pc = "done"

\* C13: every row execute_monitoring_task pushes to the result queue carries
\* every key the flush transformation reads, so a flush over rows pushed by
\* tasks does not fail in the transformation step.
C13_PushedRowsTransformable ==
    /\ \A i \in 1..Len(queue) : queue[i].complete
    /\ \A f \in Flushers : \A i \in 1..Len(flusher[f].results) : flusher[f].results[i].complete

\* C15: no job in the scheduler is for a task that has been deleted, whichever
\* handler added the job.
C15_NoTriggerForDeleted == \A j \in jobs : db[j.task] # Deleted

\* C16: every active task has a job in the scheduler.
C16_ActiveHasTrigger ==
    \A t \in TaskIds : (Exists(t) /\ db[t].active) => \E j \in jobs : j.task = t

\* C24: the llm_type and llm_version of the row execute_monitoring_task stores
\* and pushes are the pair that served the query, the one query_llm chose
\* after optimize_query.
C24_RecordedIsServed ==
    \A e \in 1..Len(execs) :
        execs[e].pc \in {"push", "done"} => execs[e].recorded = execs[e].served

\* C30: the scheduler holds at most one job per task, whatever startup
\* recovery, creations, updates and deletions came before.
C30_OneTriggerPerTask ==
    \A t \in TaskIds : Cardinality({j \in jobs : j.task = t}) <= 1

----------------------------------------------------------------------------
(* Further claims on the query pipeline (specification Spec)               *)

\* the batches that were handed to _process_items
Dispatched(c) == task[c].pc \in {"gather", "cache_set", "done"} /\ task[c].batch # << >>

\* C27: no batch handed to _process_items holds more than batch_size items.
C27_BatchWithinSize ==
    \A c \in Callers : Dispatched(c) => Len(task[c].batch) <= batch_size

\* the batch of task c failed: _process_items raised into the except branch
BatchFailed(c) == task[c].pc = "done" /\ task[c].error # ""

\* the items of the batch of task c that _process_items had gone through when
\* it ended: for each, increment_usage was called and the redis.set was made
Recorded(c) == Len(task[c].results)

Sent(c) == IF task[c].key[1] = "openai" THEN Len(task[c].batch) ELSE 0

----------------------------------------------------------------------------
(* Claims on CostOptimizer under track_request (specification SpecTrack)   *)

\* the last optimize_query call had the arguments of the remembered one
SameArguments ==
    /\ opt_first # Absent
    /\ opt_in = [query_text |-> opt_first.query_text, llm_type |-> opt_first.llm_type,
                 llm_version |-> opt_first.llm_version]

\* C23: optimize_query is deterministic: a call returns the (provider, model)
\* an earlier call with the same query text, provider and model returned, and
\* the complexity score it computes is the same, whatever track_request calls
\* and optimize_query calls came in between.
C23_OptimizeDeterministic ==
    SameArguments =>
        /\ opt_first.answer = <<opt_out.llm_type, opt_out.llm_version>>
        /\ opt_first.answer =
               OptimizeQuery(opt_in.query_text, opt_in.llm_type, opt_in.llm_version)

\* the remembered call, one that reaches the performance check, was repeated
\* after a miss had been tracked for its model and a hit for another
C23_Witness ==
    /\ SameArguments
    /\ opt_first.query_text = ComplexQuery
    /\ <<opt_first.llm_type, opt_first.llm_version>> \in TrackKeys
    /\ cache_misses[<<opt_first.llm_type, opt_first.llm_version>>] >= 1
    /\ \E key \in TrackKeys : cache_hits[key] >= 1

====
